---- MODULE Spec2Model ----
(***************************************************************************)
(* Model of tools/lint/clang_format_lint.py: the extension classifier      *)
(* _is_cxx, the per-file check _check_clang_format_idempotence with its    *)
(* two child processes, and the driver main.                               *)
(*                                                                         *)
(* A path is a sequence of one-character strings.  A file's content is a   *)
(* sequence of tokens: "x" is a token the formatter keeps, "s" is one it   *)
(* removes.                                                                *)
(***************************************************************************)
EXTENDS Integers, Sequences, FiniteSets, TLC

\* ------------------------------------------------------------------ bounds

\* Largest number of command-line paths of a run.
MaxArgs == 3

\* Largest number of parts a classifier input is assembled from.
MaxParts == 3

\* ----------------------------------------------------------------- helpers

Max(S) == CHOOSE m \in S : \A n \in S : n <= m

\* str.rfind(ch), 1-based; 0 when ch does not occur.
RFind(p, ch) ==
    LET S == {k \in 1..Len(p) : p[k] = ch}
    IN  IF S = {} THEN 0 ELSE Max(S)

\* os.path.splitext(p) on a POSIX path: <<root, ext>>.  The extension starts
\* at the last dot of the last path component, unless only dots precede it
\* in that component.
splitext(p) ==
    LET sepIndex == RFind(p, "/")
        dotIndex == RFind(p, ".")
    IN  IF /\ dotIndex > sepIndex
           /\ \E k \in (sepIndex + 1)..(dotIndex - 1) : p[k] # "."
        THEN <<SubSeq(p, 1, dotIndex - 1), SubSeq(p, dotIndex, Len(p))>>
        ELSE <<p, <<>> >>

\* The allow-list of _is_cxx, with ".C" lowered: a case-insensitive list.
CxxExtensionsLowered ==
    { <<".", "c">>, <<".", "c", "c">>, <<".", "c", "p", "p">>,
      <<".", "c", "x", "x">>, <<".", "c", "+", "+">>,
      <<".", "h">>, <<".", "h", "h">>, <<".", "h", "p", "p">>,
      <<".", "h", "x", "x">>, <<".", "i", "n", "c">> }

\* The allow-list of _is_cxx.
CxxExtensions ==
    { <<".", "c">>, <<".", "c", "c">>, <<".", "c", "p", "p">>,
      <<".", "c", "x", "x">>, <<".", "c", "+", "+">>, <<".", "C">>,
      <<".", "h">>, <<".", "h", "h">>, <<".", "h", "p", "p">>,
      <<".", "h", "x", "x">>, <<".", "i", "n", "c">> }

\* The string the code compares the penultimate extension with: "cu".
CudaMarker == <<"c", "u">>

\* _is_cxx(filename)
_is_cxx(fname) ==
    LET root == splitext(fname)[1]
        ext == splitext(fname)[2]
        penultimate_ext == splitext(root)[2]
    IN  IF penultimate_ext = CudaMarker
        THEN FALSE
        ELSE ext \in CxxExtensions

\* ------------------------------------------------------- the external tools

\* shutil.which("clang-format") when the tool is on the search path.
ToolPath == "/usr/bin/clang-format"

\* shutil.which's result when the tool is not found.
None == "None"

DiffPath == "/usr/bin/diff"

\* A file of the disk: absent (or unreadable), or present with its content.
Missing == [exists |-> FALSE, data |-> <<>>]

File(d) == [exists |-> TRUE, data |-> d]

\* What clang-format -style=file makes of a content.
Format(d) == SelectSeq(d, LAMBDA t : t # "s")

Prefixes(d) == {SubSeq(d, 1, n) : n \in 0..Len(d)}

\* What the formatter can write to its standard output: nothing for a file
\* it cannot read (the message goes to standard error), the formatted
\* content, or a prefix of it when it crashes on the way.
FormatterStdout(f) ==
    IF f.exists THEN Prefixes(Format(f.data)) ELSE {<<>>}

\* Standard output of diff -u - <file> with `input` on standard input:
\* empty when both are equal, and empty when the file cannot be read (the
\* message goes to standard error).
DiffStdout(input, f) ==
    IF ~f.exists \/ input = f.data
    THEN <<>>
    ELSE <<"@@">> \o input \o <<"@@">> \o f.data

\* The command lines the program builds.
FormatterCmdInPlace(tool, fname) ==
    [prog |-> tool, flags |-> <<"-style=file", "-i">>, file |-> fname]

\* The formatter launched with the in-place flag.
FormatterCmdWithI(tool, fname) == FormatterCmdInPlace(tool, fname)

FormatterCmd(tool, fname) ==
    [prog |-> tool, flags |-> <<"-style=file">>, file |-> fname]

DifferCmd(fname) ==
    [prog |-> DiffPath, flags |-> <<"-u", "-">>, file |-> fname]

NoCmd == [prog |-> "", flags |-> <<>>, file |-> <<>>]

\* The disk after a formatter run of command line c: the -i flag rewrites
\* the file in place.
ToolEffect(c, dsk) ==
    IF (\E k \in 1..Len(c.flags) : c.flags[k] = "-i") /\ dsk[c.file].exists
    THEN [dsk EXCEPT ![c.file] = File(Format(dsk[c.file].data))]
    ELSE dsk

\* ------------------------------------------------------------ console lines

Line(kind, fname, c, body) ==
    [kind |-> kind, file |-> fname, cmd |-> c, body |-> body]

SkippingLine(fname) == Line("clang_format_lint.py: Skipping", fname, NoCmd, <<>>)

LintingLine(fname) == Line("clang_format_lint.py: Linting", fname, NoCmd, <<>>)

ErrorLine(fname) == Line("ERROR: needs clang-format", fname, NoCmd, <<>>)

FixLine(tool, fname) ==
    Line("You can fix it by", fname, FormatterCmdInPlace(tool, fname), <<>>)

DiffLine(fname, chg) == Line("Full diff:", fname, NoCmd, chg)

\* -------------------------------------------------------------- the inputs

\* The paths of the runs of main: main.cc, notes.py, foo.cu.cc.
MainCc == <<"m", ".", "c", "c">>

NotesPy == <<"n", ".", "p", "y">>

FooCuCc == <<"f", ".", "c", "u", ".", "c", "c">>

Paths == {MainCc, NotesPy, FooCuCc}

\* The states of a file: absent, empty, formatted, not formatted.
FileStates == {Missing, File(<<>>), File(<<"x">>), File(<<"s", "x">>)}

RECURSIVE SeqsUpTo(_, _)
SeqsUpTo(S, n) ==
    IF n = 0 THEN {<<>>}
    ELSE LET prev == SeqsUpTo(S, n - 1)
         IN  prev \cup {Append(q, e) : q \in {r \in prev : Len(r) = n - 1}, e \in S}

\* The parts the classifier's inputs are assembled from: a name, the
\* separators, every allowed extension, and extensions that are not allowed.
Parts ==
    { <<"f">>, <<"/">>, <<".">>, <<"c", "u">>, <<".", "c", "u">>,
      <<".", "p", "y">>, <<".", "H">>,
      <<".", "c">>, <<".", "c", "c">>, <<".", "c", "p", "p">>,
      <<".", "c", "x", "x">>, <<".", "c", "+", "+">>, <<".", "C">>,
      <<".", "h">>, <<".", "h", "h">>, <<".", "h", "p", "p">>,
      <<".", "h", "x", "x">>, <<".", "i", "n", "c">> }

RECURSIVE Filenames(_)
Filenames(n) ==
    IF n = 0 THEN {<<>>}
    ELSE LET prev == Filenames(n - 1)
         IN  prev \cup {a \o b : a \in prev, b \in Parts}

\* ---------------------------------------------------------------- the state

VARIABLES
    argv,          \* sys.argv[1:]
    disk,          \* path -> file
    disk0,         \* the disk at start
    toolFound,     \* clang-format is on the search path
    diffExists,    \* /usr/bin/diff exists
    pc,            \* position of the parent process
    i,             \* number of paths the for loop has taken
    filename,      \* the loop variable
    ret,           \* the value _is_cxx returned for filename
    clang_format,  \* local of the check: shutil.which's result
    changes,       \* local of the check: the differ's captured output
    total_errors,  \* the counter of main
    out,           \* the lines printed so far
    exit_code,     \* exit status of the process, -1 while it runs
    formatter,     \* index of argv -> the formatter child of that path
    differ,        \* index of argv -> the differ child of that path
    spawned,       \* the command lines launched so far
    calls,         \* the indices the check was invoked for, in order
    results        \* the values the check returned, in order

vars == <<argv, disk, disk0, toolFound, diffExists, pc, i, filename, ret,
          clang_format, changes, total_errors, out, exit_code, formatter,
          differ, spawned, calls, results>>

NoChild == [state |-> "none", cmd |-> NoCmd, stdout |-> <<>>]

InitRun(args, dsk, tf, de) ==
    /\ argv = args
    /\ disk = dsk
    /\ disk0 = dsk
    /\ toolFound = tf
    /\ diffExists = de
    /\ pc = "loop"
    /\ i = 0
    /\ filename = <<>>
    /\ ret = FALSE
    /\ clang_format = None
    /\ changes = <<>>
    /\ total_errors = 0
    /\ out = <<>>
    /\ exit_code = -1
    /\ formatter = [j \in 1..Len(args) |-> NoChild]
    /\ differ = [j \in 1..Len(args) |-> NoChild]
    /\ spawned = <<>>
    /\ calls = <<>>
    /\ results = <<>>

\* A run of main on up to MaxArgs paths, in every environment.
Init ==
    \E args \in SeqsUpTo(Paths, MaxArgs), dsk \in [Paths -> FileStates],
       tf \in BOOLEAN, de \in BOOLEAN :
        InitRun(args, dsk, tf, de)

\* A run on one path, drawn from every name of up to MaxParts parts.
InitCxx ==
    \E f \in Filenames(MaxParts) :
        InitRun(<<f>>, [p \in {f} |-> File(<<"x">>)], TRUE, TRUE)

\* ------------------------------------------------------------------- main

\* for filename in sys.argv[1:]: if not _is_cxx(filename)
IsCxxCall ==
    /\ pc = "loop"
    /\ i < Len(argv)
    /\ i' = i + 1
    /\ filename' = argv[i + 1]
    /\ ret' = _is_cxx(argv[i + 1])
    /\ pc' = "branch"
    /\ UNCHANGED <<argv, disk, disk0, toolFound, diffExists, clang_format,
                   changes, total_errors, out, exit_code, formatter, differ,
                   spawned, calls, results>>

\* The skip without its continue: the skipped path is checked all the same.
SkipFallsThrough ==
    /\ pc = "branch"
    /\ ~ret
    /\ out' = Append(out, SkippingLine(filename))
    /\ calls' = Append(calls, i)
    /\ pc' = "which"
    /\ UNCHANGED <<argv, disk, disk0, toolFound, diffExists, i, filename, ret,
                   clang_format, changes, total_errors, exit_code, formatter,
                   differ, spawned, results>>

\* print("... Skipping " + filename); continue
Skip ==
    /\ pc = "branch"
    /\ ~ret
    /\ out' = Append(out, SkippingLine(filename))
    /\ pc' = "loop"
    /\ UNCHANGED <<argv, disk, disk0, toolFound, diffExists, i, filename, ret,
                   clang_format, changes, total_errors, exit_code, formatter,
                   differ, spawned, calls, results>>

\* print("... Linting " + filename); enter _check_clang_format_idempotence
Lint ==
    /\ pc = "branch"
    /\ ret
    /\ out' = Append(out, LintingLine(filename))
    /\ calls' = Append(calls, i)
    /\ pc' = "which"
    /\ UNCHANGED <<argv, disk, disk0, toolFound, diffExists, i, filename, ret,
                   clang_format, changes, total_errors, exit_code, formatter,
                   differ, spawned, results>>

\* The count itself as the exit status.
ExitCodeRaw(total) == total

\* sys.exit(0) if total_errors == 0 else sys.exit(1)
ExitCode(total) == IF total = 0 THEN 0 ELSE 1

Exit ==
    /\ pc = "loop"
    /\ i = Len(argv)
    /\ exit_code' = ExitCode(total_errors)
    /\ pc' = "exited"
    /\ UNCHANGED <<argv, disk, disk0, toolFound, diffExists, i, filename, ret,
                   clang_format, changes, total_errors, out, formatter, differ,
                   spawned, calls, results>>

\* ------------------------------------------ _check_clang_format_idempotence

\* clang_format = shutil.which("clang-format")
which(found) == IF found THEN ToolPath ELSE None

Which ==
    /\ pc = "which"
    /\ clang_format' = which(toolFound)
    /\ pc' = "popen_formatter"
    /\ UNCHANGED <<argv, disk, disk0, toolFound, diffExists, i, filename, ret,
                   changes, total_errors, out, exit_code, formatter, differ,
                   spawned, calls, results>>

\* subprocess.Popen raises TypeError for an argument list holding None.
PopenFormatterRaises(tool) == tool = None

\* formatter = subprocess.Popen([clang_format, "-style=file", filename], ...)
PopenFormatter ==
    /\ pc = "popen_formatter"
    /\ ~PopenFormatterRaises(clang_format)
    /\ formatter' = [formatter EXCEPT ![i] =
                        [state |-> "running",
                         cmd |-> FormatterCmd(clang_format, filename),
                         stdout |-> <<>>]]
    /\ spawned' = Append(spawned, FormatterCmd(clang_format, filename))
    /\ pc' = "popen_differ"
    /\ UNCHANGED <<argv, disk, disk0, toolFound, diffExists, i, filename, ret,
                   clang_format, changes, total_errors, out, exit_code, differ,
                   calls, results>>

\* The TypeError is not caught: the interpreter prints a traceback and the
\* process ends with status 1.
PopenFormatterFails ==
    /\ pc = "popen_formatter"
    /\ PopenFormatterRaises(clang_format)
    /\ pc' = "crashed"
    /\ exit_code' = 1
    /\ UNCHANGED <<argv, disk, disk0, toolFound, diffExists, i, filename, ret,
                   clang_format, changes, total_errors, out, formatter, differ,
                   spawned, calls, results>>

\* A launch of the differ that also raises for a path that is not there.
PopenDifferRaisesOnMissing(fname) == ~diffExists \/ ~disk[fname].exists

\* subprocess.Popen raises FileNotFoundError when /usr/bin/diff is absent.
PopenDifferRaises(fname) == ~diffExists

\* differ = subprocess.Popen(["/usr/bin/diff", "-u", "-", filename], ...)
PopenDiffer ==
    /\ pc = "popen_differ"
    /\ ~PopenDifferRaises(filename)
    /\ differ' = [differ EXCEPT ![i] =
                     [state |-> "running", cmd |-> DifferCmd(filename),
                      stdout |-> <<>>]]
    /\ spawned' = Append(spawned, DifferCmd(filename))
    /\ pc' = "communicate"
    /\ UNCHANGED <<argv, disk, disk0, toolFound, diffExists, i, filename, ret,
                   clang_format, changes, total_errors, out, exit_code,
                   formatter, calls, results>>

\* The FileNotFoundError is not caught either; the formatter child that was
\* already started is left behind.
PopenDifferFails ==
    /\ pc = "popen_differ"
    /\ PopenDifferRaises(filename)
    /\ pc' = "crashed"
    /\ exit_code' = 1
    /\ UNCHANGED <<argv, disk, disk0, toolFound, diffExists, i, filename, ret,
                   clang_format, changes, total_errors, out, formatter, differ,
                   spawned, calls, results>>

\* The formatter child of path j writes its output, closes its standard
\* output and ends.  Nothing in the parent waits for it.
FormatterRuns ==
    \E j \in 1..Len(argv) :
        /\ formatter[j].state = "running"
        /\ \E o \in FormatterStdout(disk[argv[j]]) :
               formatter' = [formatter EXCEPT ![j].state = "done",
                                              ![j].stdout = o]
        /\ disk' = ToolEffect(formatter[j].cmd, disk)
        /\ UNCHANGED <<argv, disk0, toolFound, diffExists, pc, i, filename,
                       ret, clang_format, changes, total_errors, out,
                       exit_code, differ, spawned, calls, results>>

\* The differ child of path j ends: at once when it cannot read the file,
\* otherwise after the end of file of its standard input, which is the
\* formatter's standard output.
DifferRuns ==
    \E j \in 1..Len(argv) :
        /\ differ[j].state = "running"
        /\ ~disk[argv[j]].exists \/ formatter[j].state = "done"
        /\ differ' = [differ EXCEPT ![j].state = "done",
                         ![j].stdout = DiffStdout(formatter[j].stdout,
                                                  disk[argv[j]])]
        /\ UNCHANGED <<argv, disk, disk0, toolFound, diffExists, pc, i,
                       filename, ret, clang_format, changes, total_errors, out,
                       exit_code, formatter, spawned, calls, results>>

\* changes = differ.communicate()[0]: blocks until the differ has ended.
Communicate ==
    /\ pc = "communicate"
    /\ differ[i].state = "done"
    /\ changes' = differ[i].stdout
    /\ pc' = "test"
    /\ UNCHANGED <<argv, disk, disk0, toolFound, diffExists, i, filename, ret,
                   clang_format, total_errors, out, exit_code, formatter,
                   differ, spawned, calls, results>>

\* The size of the captured output as the returned value.
CheckResultLen(chg) == Len(chg)

\* The value the check returns for the captured output.
CheckResult(chg) == IF chg = <<>> THEN 0 ELSE 1

\* The diff printed ahead of the error line.
CheckOutputDiffFirst(tool, fname, chg) ==
    IF chg = <<>>
    THEN <<>>
    ELSE <<DiffLine(fname, chg), ErrorLine(fname), FixLine(tool, fname)>>

\* The lines the check prints for the captured output.
CheckOutput(tool, fname, chg) ==
    IF chg = <<>>
    THEN <<>>
    ELSE <<ErrorLine(fname), FixLine(tool, fname), DiffLine(fname, chg)>>

\* if not changes: return 0; else print the three lines and return 1;
\* back in main: total_errors += the returned value.
Return ==
    /\ pc = "test"
    /\ out' = out \o CheckOutput(clang_format, filename, changes)
    /\ results' = Append(results, CheckResult(changes))
    /\ total_errors' = total_errors + CheckResult(changes)
    /\ pc' = "loop"
    /\ UNCHANGED <<argv, disk, disk0, toolFound, diffExists, i, filename, ret,
                   clang_format, changes, exit_code, formatter, differ,
                   spawned, calls>>

\* ------------------------------------------------------- the specifications

Next ==
    \/ IsCxxCall
    \/ Skip
    \/ Lint
    \/ Which
    \/ PopenFormatter
    \/ PopenFormatterFails
    \/ PopenDiffer
    \/ PopenDifferFails
    \/ FormatterRuns
    \/ DifferRuns
    \/ Communicate
    \/ Return
    \/ Exit

Spec == Init /\ [][Next]_vars

\* The classifier alone, on every name of up to MaxParts parts.
NextCxx == IsCxxCall

SpecCxx == InitCxx /\ [][NextCxx]_vars

TypeOK ==
    /\ pc \in {"loop", "branch", "which", "popen_formatter", "popen_differ",
               "communicate", "test", "exited", "crashed"}
    /\ i \in 0..Len(argv)
    /\ ret \in BOOLEAN
    /\ total_errors \in Nat
    /\ exit_code \in {-1, 0, 1}

\* ------------------------------------------------------------- properties

\* The extension of the stem left after removing the final extension.
PenultimateExt(p) == splitext(splitext(p)[1])[2]

\* The path has a final extension and, before it, the extension .cu.
IsCuda(p) == PenultimateExt(p) = <<".", "c", "u">>

\* The allow-list as the specification words it.
AllowedFinalExts ==
    { <<".", "c">>, <<".", "c", "c">>, <<".", "c", "p", "p">>,
      <<".", "c", "x", "x">>, <<".", "c", "+", "+">>, <<".", "C">>,
      <<".", "h">>, <<".", "h", "h">>, <<".", "h", "p", "p">>,
      <<".", "h", "x", "x">>, <<".", "i", "n", "c">> }

\* p ends with an allowed extension that is the extension of its last
\* component: in front of it that component has a character which is no dot.
HasAllowedFinalExt(p) ==
    \E e \in AllowedFinalExts :
        /\ Len(p) > Len(e)
        /\ SubSeq(p, Len(p) - Len(e) + 1, Len(p)) = e
        /\ \E k \in 1..(Len(p) - Len(e)) :
               /\ p[k] # "."
               /\ \A m \in k..(Len(p) - Len(e)) : p[m] # "/"

\* Number of paths whose diagnostic has been printed.
Processed == IF pc = "branch" THEN i - 1 ELSE i

\* The indices of the eligible paths among the first n, ascending.
RECURSIVE EligibleUpTo(_)
EligibleUpTo(n) ==
    IF n = 0 THEN <<>>
    ELSE IF _is_cxx(argv[n]) THEN Append(EligibleUpTo(n - 1), n)
         ELSE EligibleUpTo(n - 1)

IsDiagnostic(l) ==
    l.kind \in {"clang_format_lint.py: Skipping", "clang_format_lint.py: Linting"}

InCheck == pc \in {"which", "popen_formatter", "popen_differ", "communicate", "test"}

Ended == pc \in {"exited", "crashed"}

\* C1: a path whose penultimate extension is cu is classified as not
\* eligible whatever its final extension, and the check is never invoked
\* for such a path.
C1_CudaIsSkipped ==
    /\ (pc = "branch" /\ IsCuda(filename)) => ret = FALSE
    /\ \A k \in 1..Len(calls) : ~IsCuda(argv[calls[k]])

\* C2: for a path whose penultimate extension is not cu, _is_cxx returns a
\* boolean that is true exactly when the final extension is one of the
\* eleven allowed ones, compared case-sensitively.
C2_AllowList ==
    pc = "branch" =>
        /\ ret \in BOOLEAN
        /\ ~IsCuda(filename) => (ret <=> HasAllowedFinalExt(filename))

\* _is_cxx has returned true for f.C, whose penultimate extension is empty.
C2_Witness ==
    /\ pc = "branch"
    /\ filename = <<"f", ".", "C">>
    /\ ~IsCuda(filename)
    /\ ret = TRUE

\* C3: the exit code is 0 exactly when the check returned 0 for every
\* eligible path, and 1 as soon as one check returned 1; only eligible
\* paths are checked, so the others have no part in it.
C3_ExitCode ==
    /\ calls = SubSeq(EligibleUpTo(Processed), 1, Len(calls))
    /\ pc = "exited" =>
        /\ calls = EligibleUpTo(Len(argv))
        /\ Len(results) = Len(calls)
        /\ exit_code = 0 <=> \A k \in 1..Len(results) : results[k] = 0
        /\ (\E k \in 1..Len(results) : results[k] = 1) => exit_code = 1

\* A run of two paths has exited with 1: the first path was skipped, the
\* check of the second returned 1.
C3_Witness ==
    /\ pc = "exited"
    /\ exit_code = 1
    /\ Len(argv) = 2
    /\ ~_is_cxx(argv[1])
    /\ results = <<1>>

\* What a finished run of the first n paths has printed, given what the
\* differ of each path wrote to its standard output.
RECURSIVE ExpectedOut(_)
ExpectedOut(n) ==
    IF n = 0 THEN <<>>
    ELSE ExpectedOut(n - 1) \o
         ( IF ~_is_cxx(argv[n])
           THEN <<SkippingLine(argv[n])>>
           ELSE IF differ[n].stdout = <<>>
           THEN <<LintingLine(argv[n])>>
           ELSE << LintingLine(argv[n]),
                   ErrorLine(argv[n]),
                   Line("You can fix it by", argv[n],
                        [prog |-> ToolPath, flags |-> <<"-style=file", "-i">>,
                         file |-> argv[n]], <<>>),
                   DiffLine(argv[n], differ[n].stdout) >> )

\* C4: the check returns 0 and prints nothing when the differ's captured
\* output is empty; otherwise it prints the error line, the remediation
\* command and the diff, in this order, and returns 1.
C4_CheckResult ==
    /\ \A k \in 1..Len(results) :
           /\ differ[calls[k]].state = "done"
           /\ results[k] = IF differ[calls[k]].stdout = <<>> THEN 0 ELSE 1
    /\ pc \in {"loop", "exited"} => out = ExpectedOut(i)

\* Two checks have returned, one with 0 and one with 1.
C4_Witness ==
    /\ pc = "loop"
    /\ \E k \in 1..Len(results) : results[k] = 0
    /\ \E k \in 1..Len(results) : results[k] = 1

\* C5: a run that was given an eligible path (a C++ path, no CUDA one) which
\* does not exist exits with 1.
C5_InvalidPathExitsOne ==
    (pc = "exited" /\ \E j \in 1..Len(argv) :
                          /\ _is_cxx(argv[j])
                          /\ ~IsCuda(argv[j])
                          /\ ~disk[argv[j]].exists)
        => exit_code = 1

\* C6: the disk is what it was at start; every command launched is the
\* formatter with the single flag -style=file or the diff, and the in-place
\* flag is on no launched command.
C6_NoMutation ==
    /\ disk = disk0
    /\ \A k \in 1..Len(spawned) :
           /\ \/ spawned[k].prog = ToolPath /\ spawned[k].flags = <<"-style=file">>
              \/ spawned[k].prog = DiffPath /\ spawned[k].flags = <<"-u", "-">>
           /\ \A m \in 1..Len(spawned[k].flags) : spawned[k].flags[m] # "-i"

\* The formatter has run on a file that is not formatted and the in-place
\* command has been printed for it.
C6_Witness ==
    \E j \in 1..Len(argv) :
        /\ formatter[j].state = "done"
        /\ disk[argv[j]] = File(<<"s", "x">>)
        /\ \E k \in 1..Len(out) :
               /\ out[k].kind = "You can fix it by"
               /\ out[k].file = argv[j]
               /\ out[k].cmd.flags = <<"-style=file", "-i">>

\* C7, as stated: when /usr/bin/diff exists, no error ends the run,
\* whatever the condition of the formatter.
C7_OnlyDiffIsFatal ==
    diffExists => pc # "crashed"

\* C7, amended: when /usr/bin/diff exists and the formatter is on the
\* search path, no error ends the run, the parent is never stuck, and a run
\* that has exited has taken every path, got 0 or 1 from every check and
\* has exit code 0 or 1; a run ends with an unhandled error only when the
\* diff utility or the formatter is absent.
C7_DiffAndFormatterAreFatal ==
    /\ pc = "crashed" => (~diffExists \/ ~toolFound)
    /\ \A k \in 1..Len(results) : results[k] \in {0, 1}
    /\ (diffExists /\ toolFound) =>
        /\ pc # "exited" => ENABLED Next
        /\ pc = "exited" =>
            /\ i = Len(argv)
            /\ Len(results) = Len(calls)
            /\ exit_code \in {0, 1}

\* With both tools present, a run has exited after the check of a path
\* that does not exist and of a path whose formatter output was cut short.
C7_Witness ==
    /\ pc = "exited"
    /\ diffExists /\ toolFound
    /\ \E j \in 1..Len(argv) : _is_cxx(argv[j]) /\ ~disk[argv[j]].exists
    /\ \E j \in 1..Len(argv) :
           /\ formatter[j].state = "done"
           /\ disk[argv[j]].exists
           /\ formatter[j].stdout # Format(disk[argv[j]].data)

\* C8: one diagnostic per path, in input order, Skipping for an ineligible
\* path and Linting for an eligible one; the check is invoked once for each
\* eligible path, in order, and for no other; what a check prints follows
\* the Linting line of its path with no diagnostic in between; and no
\* diagnostic of a later path is printed while a check is under way.
C8_Sequential ==
    /\ SelectSeq(out, IsDiagnostic) =
           [j \in 1..Processed |->
               IF _is_cxx(argv[j]) THEN LintingLine(argv[j])
                                   ELSE SkippingLine(argv[j])]
    /\ calls = EligibleUpTo(Processed)
    /\ \A k \in 1..Len(out) :
           ~IsDiagnostic(out[k]) =>
               \E m \in 1..(k - 1) :
                   /\ out[m] = LintingLine(out[k].file)
                   /\ \A q \in (m + 1)..(k - 1) : ~IsDiagnostic(out[q])
    /\ InCheck =>
           /\ Len(results) = Len(calls) - 1
           /\ calls[Len(calls)] = i
           /\ out[Len(out)] = LintingLine(argv[i])
    /\ pc \in {"loop", "branch", "exited"} => Len(results) = Len(calls)

\* A run has printed Skipping for its first path and is checking the
\* second one, or has printed the output of a check and then skipped.
C8_Witness ==
    /\ Len(out) >= 2
    /\ \/ /\ InCheck
          /\ out[1].kind = "clang_format_lint.py: Skipping"
       \/ /\ pc = "loop"
          /\ out[Len(out)].kind = "clang_format_lint.py: Skipping"
          /\ out[Len(out) - 1].kind = "Full diff:"

\* C9: a child process that is alive is a child of the path being checked:
\* between two paths and after the exit no child runs, and no child of an
\* earlier path runs while a later one is checked (stated for the children
\* of the paths that are no CUDA paths).
C9_ChildrenOfCurrentPath ==
    \A j \in 1..Len(argv) :
        (/\ ~IsCuda(argv[j])
         /\ formatter[j].state = "running" \/ differ[j].state = "running")
            => (j = i /\ pc \in {"popen_differ", "communicate", "test", "crashed"})

\* The counter at a state.
C10_CounterInv ==
    /\ total_errors \in Nat
    /\ total_errors = Cardinality({k \in 1..Len(results) : results[k] = 1})
    /\ Len(results) <= Len(EligibleUpTo(Processed))
    /\ total_errors <= Processed
    /\ Ended => exit_code \in {0, 1}
    /\ argv = <<>> => spawned = <<>> /\ (pc = "exited" => exit_code = 0)

\* C10: total_errors is a natural number that never decreases, equal to the
\* number of checks that returned 1, at most the number of paths taken; the
\* exit code is 0 or 1; an empty list exits with 0 and launches nothing.
C10_Counter ==
    [](C10_CounterInv) /\ [][total_errors' >= total_errors]_vars

\* The same path was given twice, both checks returned 1 and the run has
\* exited with 1.
C10_Witness ==
    /\ pc = "exited"
    /\ Len(argv) = 2
    /\ argv[1] = argv[2]
    /\ total_errors = 2
    /\ exit_code = 1

====
